---- MODULE Spec2Model ----
(***************************************************************************)
(* Model of packet_crafter's TCP header codec (src/headers/tcp.rs):        *)
(* TcpHeader::new, the derived field setters, set_flag,                    *)
(* set_pseudo_header, make, parse, ip_sum and finalize_checksum.           *)
(*                                                                         *)
(* One TcpHeader value is followed through its life: it is constructed by  *)
(* new or parse, mutated by the setters, and consumed by make.  A panic is *)
(* an outcome of the call (ret.tag = "panic"); the caller may go on.       *)
(* Byte sequences are 1-indexed here; At(p, i) reads wire offset i.        *)
(***************************************************************************)
EXTENDS Integers, Sequences, FiniteSets, TLC

VARIABLES h, op, ret, raw, bind, made, flags0, flagsSet, psCalled, fin

vars == <<h, op, ret, raw, bind, made, flags0, flagsSet, psCalled, fin>>

hvars == <<h, op, ret, raw, bind, made, flags0, flagsSet, psCalled>>

----------------------------------------------------------------------------
(* Program constants *)

\* fn get_min_length() -> u8 { 20 }
MinLength == 20

\* the literal 20 of set_pseudo_header (the header length added to data_len)
HeaderLen == 20

\* protocol: 6, // 6 = tcp
ProtoTcp == 6

\* window: 0xffff
DefaultWindow == 65535

\* 0xffff, the largest u16
MaxU16 == 65535

(* Bounds of the model *)

\* parse is given buffers of up to this many bytes
MaxBufLen == 21

\* finalize_checksum is given 16-bit halves within this distance of 0, 2^15 and 2^16
FinSpread == 2

----------------------------------------------------------------------------
(* Fixed-width integer arithmetic *)

RECURSIVE BitOr(_, _)
BitOr(a, b) ==
    IF a = 0 THEN b
    ELSE IF b = 0 THEN a
    ELSE (IF a % 2 = 1 \/ b % 2 = 1 THEN 1 ELSE 0) + 2 * BitOr(a \div 2, b \div 2)

\* x << 8 in u16
Shl8U16(x) == (x * 256) % 65536

\* a + b in u16 (wrapping)
AddU16(a, b) == (a + b) % 65536

(* Option<T> as a sequence of at most one element *)
None == <<>>

Some(x) == <<x>>

----------------------------------------------------------------------------
(* Inputs the operations are called with *)

Ports == {443, 51000}

WindowVals == {4660, DefaultWindow}

FlagBytes == {0, 193}

TcpFlags == {"Urg", "Ack", "Psh", "Rst", "Syn", "Fin"}

\* the flags set_flag is called with where the other operations vary too
SomeFlags == {"Syn", "Ack"}

\* <<source address, destination address>>
AddrPairs == {<<<<10, 0, 0, 1>>, <<10, 0, 0, 2>>>>, <<<<255, 255, 255, 255>>, <<192, 168, 1, 254>>>>}

DataLens == {0, MaxU16 - HeaderLen, MaxU16 - HeaderLen + 1}

\* wire offsets parse reads
FieldOffsets == {0, 1, 2, 3, 13, 14, 15}

\* a buffer of n bytes: seed b decides the bytes at the field offsets, seed f the others
MkBuf(n, b, f) ==
    [i \in 1..n |-> IF (i - 1) \in FieldOffsets THEN (b + 17 * i) % 256
                                                ELSE (f + 3 * i) % 256]

BufLens == {0, 1} \cup ((MinLength - 1)..MaxBufLen)

Buffers == { MkBuf(n, b, f) : n \in BufLens, b \in {170}, f \in {0, 165} }

----------------------------------------------------------------------------
(* The code *)

\* AsBeBytes::split_to_bytes for u16: the big-endian bytes
split_to_bytes(v) == <<v \div 256, v % 256>>

\* TcpHeader::new
new(src_port, dst_port) ==
    [src_port |-> src_port,
     dst_port |-> dst_port,
     window |-> DefaultWindow,
     flags |-> 0,
     pseudo_header |-> None,
     pseudo_header_set |-> FALSE]

\* the mask set_flag ORs in for each TcpFlags variant
FlagMask(f) ==
    CASE f = "Urg" -> 32
      [] f = "Ack" -> 16
      [] f = "Psh" -> 8
      [] f = "Rst" -> 4
      [] f = "Syn" -> 2
      [] f = "Fin" -> 1

\* set_flag with an assignment where the code ORs
set_flag_assign(hdr, f) == [hdr EXCEPT !.flags = FlagMask(f)]

\* TcpHeader::set_flag
set_flag(hdr, f) == [hdr EXCEPT !.flags = BitOr(hdr.flags, FlagMask(f))]

Panic == [tag |-> "panic", val |-> <<>>]

Unit == [tag |-> "unit", val |-> <<>>]

\* set_pseudo_header without its length check: data_len + 20 wraps in u16
set_pseudo_header_nocheck(hdr, src_ip, dst_ip, data_len) ==
    [hdr EXCEPT !.pseudo_header = Some([src_ip |-> src_ip,
                                        dst_ip |-> dst_ip,
                                        protocol |-> ProtoTcp,
                                        data_len |-> AddU16(data_len, HeaderLen)]),
                !.pseudo_header_set = TRUE]

\* set_pseudo_header that forgets pseudo_header_set
set_pseudo_header_noflag(hdr, src_ip, dst_ip, data_len) ==
    IF data_len > MaxU16 - HeaderLen
    THEN Panic
    ELSE [hdr EXCEPT !.pseudo_header = Some([src_ip |-> src_ip,
                                             dst_ip |-> dst_ip,
                                             protocol |-> ProtoTcp,
                                             data_len |-> AddU16(data_len, HeaderLen)])]

\* TransportHeader::set_pseudo_header: the header after the call, or Panic
set_pseudo_header(hdr, src_ip, dst_ip, data_len) ==
    IF data_len > MaxU16 - HeaderLen
    THEN Panic
    ELSE [hdr EXCEPT !.pseudo_header = Some([src_ip |-> src_ip,
                                             dst_ip |-> dst_ip,
                                             protocol |-> ProtoTcp,
                                             data_len |-> AddU16(data_len, HeaderLen)]),
                     !.pseudo_header_set = TRUE]

(* A u32 is kept as its two 16-bit halves <<hi, lo>>, so that every u32 value *)
(* can be written and its arithmetic wraps at 2^32.                           *)

\* x as u32, for x a u8 or a u16
U32(x) == <<0, x>>

\* a + b in u32 (wrapping)
AddU32(a, b) ==
    LET lo == a[2] + b[2]
        hi == a[1] + b[1] + lo \div 65536
    IN  <<hi % 65536, lo % 65536>>

\* a << 8 in u32
Shl8U32(a) == <<(a[1] * 256 + a[2] \div 256) % 65536, (a[2] * 256) % 65536>>

\* a | b in u32
OrU32(a, b) == <<BitOr(a[1], b[1]), BitOr(a[2], b[2])>>

\* fn ip_sum(octets: [u8; 4]) -> u32
ip_sum(octets) ==
    AddU32(OrU32(Shl8U32(U32(octets[1])), U32(octets[2])),
           OrU32(Shl8U32(U32(octets[3])), U32(octets[4])))

\* the loop condition of finalize_checksum: cs >> 16 != 0
FoldCond(cs) == cs[1] # 0

\* the loop body without the carry: cs = cs & 0xFFFF
FoldStepNoCarry(cs) == U32(cs[2])

\* the loop body of finalize_checksum: cs = (cs >> 16) + (cs & 0xFFFF)
FoldStep(cs) == AddU32(U32(cs[1]), U32(cs[2]))

\* the return of finalize_checksum: !cs as u16
NotAsU16(cs) == MaxU16 - cs[2]

\* fn finalize_checksum(mut cs: u32) -> u16
RECURSIVE finalize_checksum(_)
finalize_checksum(cs) ==
    IF FoldCond(cs) THEN finalize_checksum(FoldStep(cs)) ELSE NotAsU16(cs)

\* the vec! of make with the flags byte one place early
header_bytes_flags12(hdr) ==
    LET src_p == split_to_bytes(hdr.src_port)
        dst_p == split_to_bytes(hdr.dst_port)
        window_bytes == split_to_bytes(hdr.window)
    IN  <<src_p[1], src_p[2], dst_p[1], dst_p[2],
          0, 0, 0, 0,
          0, 0, 0, 0,
          hdr.flags, 0, window_bytes[1], window_bytes[2],
          0, 0, 0, 0>>

\* the vec! of make: the 20 bytes before the checksum is written
header_bytes(hdr) ==
    LET src_p == split_to_bytes(hdr.src_port)
        dst_p == split_to_bytes(hdr.dst_port)
        window_bytes == split_to_bytes(hdr.window)
    IN  <<src_p[1], src_p[2], dst_p[1], dst_p[2],
          0, 0, 0, 0,
          0, 0, 0, 0,
          0, hdr.flags, window_bytes[1], window_bytes[2],
          0, 0, 0, 0>>

\* the accumulator make hands to finalize_checksum
pseudo_sum(pseudo_header) ==
    LET v1 == AddU32(U32(0), ip_sum(pseudo_header.src_ip))
        v2 == AddU32(v1, ip_sum(pseudo_header.dst_ip))
        v3 == AddU32(v2, U32(pseudo_header.protocol))
    IN  AddU32(v3, U32(pseudo_header.data_len))

\* make without the check for a missing pseudo-header: it sums nothing then
make_unchecked(hdr) ==
    LET packet == header_bytes(hdr)
        val == IF hdr.pseudo_header = None THEN U32(0)
                                           ELSE pseudo_sum(hdr.pseudo_header[1])
        checksum == split_to_bytes(finalize_checksum(val))
    IN  [tag |-> "packet",
         val |-> [packet EXCEPT ![17] = checksum[1], ![18] = checksum[2]]]

\* Header::make: the PacketData, or Panic
make(hdr) ==
    LET packet == header_bytes(hdr)
    IN  IF hdr.pseudo_header = None
        THEN Panic
        ELSE LET pseudo_header == hdr.pseudo_header[1]
                 val == pseudo_sum(pseudo_header)
                 checksum == split_to_bytes(finalize_checksum(val))
             IN  [tag |-> "packet",
                  val |-> [packet EXCEPT ![17] = checksum[1], ![18] = checksum[2]]]

\* the struct parse builds, with the flags read one place early
parse_fields_flags12(raw_data) ==
    [src_port |-> AddU16(Shl8U16(raw_data[1]), raw_data[2]),
     dst_port |-> AddU16(Shl8U16(raw_data[3]), raw_data[4]),
     flags |-> raw_data[13],
     window |-> AddU16(Shl8U16(raw_data[15]), raw_data[16]),
     pseudo_header |-> None,
     pseudo_header_set |-> FALSE]

\* the struct parse builds, with the window decoded low byte first
parse_fields_le_window(raw_data) ==
    [src_port |-> AddU16(Shl8U16(raw_data[1]), raw_data[2]),
     dst_port |-> AddU16(Shl8U16(raw_data[3]), raw_data[4]),
     flags |-> raw_data[14],
     window |-> AddU16(Shl8U16(raw_data[16]), raw_data[15]),
     pseudo_header |-> None,
     pseudo_header_set |-> FALSE]

\* the struct parse builds from raw_data
parse_fields(raw_data) ==
    [src_port |-> AddU16(Shl8U16(raw_data[1]), raw_data[2]),
     dst_port |-> AddU16(Shl8U16(raw_data[3]), raw_data[4]),
     flags |-> raw_data[14],
     window |-> AddU16(Shl8U16(raw_data[15]), raw_data[16]),
     pseudo_header |-> None,
     pseudo_header_set |-> FALSE]

\* parse with <= where the code has <
parse_le_min(raw_data) ==
    IF Len(raw_data) <= MinLength
    THEN [tag |-> "InvalidLength", val |-> None]
    ELSE [tag |-> "Ok", val |-> Some(parse_fields(raw_data))]

\* Header::parse: Ok(header) or Err(InvalidLength)
parse(raw_data) ==
    IF Len(raw_data) < MinLength
    THEN [tag |-> "InvalidLength", val |-> None]
    ELSE [tag |-> "Ok", val |-> Some(parse_fields(raw_data))]

----------------------------------------------------------------------------
(* The header's life *)

\* the finalize_checksum call that is not running
FinIdle == [pc |-> "idle", cs0 |-> <<0, 0>>, cs |-> <<0, 0>>, n |-> 0, res |-> 0]

\* a caller holds a header fresh from new
Init ==
    /\ \E sp \in Ports, dp \in Ports : h = Some(new(sp, dp))
    /\ op = "new"
    /\ ret = Unit
    /\ raw = <<>>
    /\ bind = None
    /\ made = None
    /\ flags0 = 0
    /\ flagsSet = {}
    /\ psCalled = FALSE
    /\ fin = FinIdle

New ==
    /\ \E sp \in Ports, dp \in Ports : h' = Some(new(sp, dp))
    /\ op' = "new"
    /\ ret' = Unit
    /\ raw' = <<>>
    /\ bind' = None
    /\ made' = None
    /\ flags0' = 0
    /\ flagsSet' = {}
    /\ psCalled' = FALSE
    /\ UNCHANGED fin

SetSrcPort ==
    /\ h # None
    /\ \E v \in Ports : h' = Some([h[1] EXCEPT !.src_port = v])
    /\ op' = "set_src_port"
    /\ ret' = Unit
    /\ raw' = <<>>
    /\ bind' = None
    /\ made' = None
    /\ UNCHANGED <<flags0, flagsSet, psCalled, fin>>

SetDstPort ==
    /\ h # None
    /\ \E v \in Ports : h' = Some([h[1] EXCEPT !.dst_port = v])
    /\ op' = "set_dst_port"
    /\ ret' = Unit
    /\ raw' = <<>>
    /\ bind' = None
    /\ made' = None
    /\ UNCHANGED <<flags0, flagsSet, psCalled, fin>>

SetFlags ==
    /\ h # None
    /\ \E v \in FlagBytes :
          /\ h' = Some([h[1] EXCEPT !.flags = v])
          /\ flags0' = v
    /\ flagsSet' = {}
    /\ op' = "set_flags"
    /\ ret' = Unit
    /\ raw' = <<>>
    /\ bind' = None
    /\ made' = None
    /\ UNCHANGED <<psCalled, fin>>

SetWindow ==
    /\ h # None
    /\ \E v \in WindowVals : h' = Some([h[1] EXCEPT !.window = v])
    /\ op' = "set_window"
    /\ ret' = Unit
    /\ raw' = <<>>
    /\ bind' = None
    /\ made' = None
    /\ UNCHANGED <<flags0, flagsSet, psCalled, fin>>

\* set_flag called with a flag of F
SetFlag(F) ==
    /\ h # None
    /\ \E f \in F :
          /\ h' = Some(set_flag(h[1], f))
          /\ flagsSet' = flagsSet \cup {f}
    /\ op' = "set_flag"
    /\ ret' = Unit
    /\ raw' = <<>>
    /\ bind' = None
    /\ made' = None
    /\ UNCHANGED <<flags0, psCalled, fin>>

\* a panic unwinds out of the call before the header is written
SetPseudoHeader ==
    /\ h # None
    /\ \E a \in AddrPairs, n \in DataLens :
          LET src == a[1]
              dst == a[2]
              r == set_pseudo_header(h[1], src, dst, n)
          IN  /\ bind' = Some([src_ip |-> src, dst_ip |-> dst, data_len |-> n])
              /\ IF r = Panic
                 THEN ret' = Panic /\ h' = h
                 ELSE ret' = Unit /\ h' = Some(r)
    /\ op' = "set_pseudo_header"
    /\ psCalled' = TRUE
    /\ raw' = <<>>
    /\ made' = None
    /\ UNCHANGED <<flags0, flagsSet, fin>>

\* make takes the header by value: it is gone afterwards, packet or panic
Make ==
    /\ h # None
    /\ ret' = make(h[1])
    /\ made' = h
    /\ h' = None
    /\ op' = "make"
    /\ raw' = <<>>
    /\ bind' = None
    /\ UNCHANGED <<flags0, flagsSet, psCalled, fin>>

\* what a call of parse on raw_data leaves
Parsed(raw_data) ==
    LET r == parse(raw_data)
    IN  /\ raw' = raw_data
        /\ ret' = [tag |-> r.tag, val |-> <<>>]
        /\ h' = r.val
        /\ flags0' = IF r.val = None THEN 0 ELSE r.val[1].flags
        /\ op' = "parse"
        /\ bind' = None
        /\ flagsSet' = {}
        /\ psCalled' = FALSE
        /\ UNCHANGED fin

\* parse of a buffer from elsewhere
Parse ==
    /\ \E b \in Buffers : Parsed(b)
    /\ made' = None

\* parse of the PacketData the last make returned
ParseMade ==
    /\ op = "make"
    /\ ret.tag = "packet"
    /\ Parsed(ret.val)
    /\ UNCHANGED made

Next ==
    \/ New
    \/ SetSrcPort
    \/ SetDstPort
    \/ SetFlags
    \/ SetWindow
    \/ SetFlag(SomeFlags)
    \/ SetPseudoHeader
    \/ Make
    \/ Parse
    \/ ParseMade

Spec == Init /\ [][Next]_vars

(* The flags byte under every TcpFlags variant *)

NextFlags ==
    \/ New
    \/ SetFlags
    \/ SetFlag(TcpFlags)
    \/ Parse

SpecFlags == Init /\ [][NextFlags]_vars

----------------------------------------------------------------------------
(* finalize_checksum, one loop iteration at a time *)

FinHalves ==
    (0..FinSpread) \cup ((32768 - FinSpread)..(32768 + FinSpread))
                   \cup ((MaxU16 - FinSpread)..MaxU16)

FinInit ==
    /\ h = None
    /\ op = "finalize_checksum"
    /\ ret = Unit
    /\ raw = <<>>
    /\ bind = None
    /\ made = None
    /\ flags0 = 0
    /\ flagsSet = {}
    /\ psCalled = FALSE
    /\ \E hi \in FinHalves, lo \in FinHalves :
          fin = [pc |-> "loop", cs0 |-> <<hi, lo>>, cs |-> <<hi, lo>>, n |-> 0, res |-> 0]

\* while cs >> 16 != 0 { cs = (cs >> 16) + (cs & 0xFFFF); }
FinLoop ==
    /\ fin.pc = "loop"
    /\ FoldCond(fin.cs)
    /\ fin' = [fin EXCEPT !.cs = FoldStep(fin.cs), !.n = fin.n + 1]
    /\ UNCHANGED hvars

\* !cs as u16
FinReturn ==
    /\ fin.pc = "loop"
    /\ ~FoldCond(fin.cs)
    /\ fin' = [fin EXCEPT !.pc = "done", !.res = NotAsU16(fin.cs)]
    /\ UNCHANGED hvars

FinNext == FinLoop \/ FinReturn

\* a running call is never suspended: the loop is sequential code
SpecFin == FinInit /\ [][FinNext]_vars /\ WF_vars(FinNext)

----------------------------------------------------------------------------
(* Properties *)

\* the byte at wire offset i of p
At(p, i) == p[i + 1]

\* the 16-bit word whose high byte is at wire offset i of p
Be16(p, i) == At(p, i) * 256 + At(p, i + 1)

\* bit k of x
Bit(x, k) == (x \div (2 ^ k)) % 2

\* RFC 1071: the carries of a word sum added back in until none is left
RECURSIVE OnesFold(_)
OnesFold(n) == IF n > 65535 THEN OnesFold((n \div 65536) + (n % 65536)) ELSE n

\* the 16-bit words of a pseudo-header, summed
PseudoWordSum(ph) ==
    (ph.src_ip[1] * 256 + ph.src_ip[2]) + (ph.src_ip[3] * 256 + ph.src_ip[4])
    + (ph.dst_ip[1] * 256 + ph.dst_ip[2]) + (ph.dst_ip[3] * 256 + ph.dst_ip[4])
    + 6 + ph.data_len

\* the ten 16-bit words of a 20-byte header, summed
RECURSIVE HeaderWordSum(_, _)
HeaderWordSum(p, k) == IF k > 9 THEN 0 ELSE Be16(p, 2 * k) + HeaderWordSum(p, k + 1)

\* C1: the pseudo-header words and the ten words of the header make emits
\* (checksum included) sum, carries folded, to 0xFFFF: the checksum covers
\* the header bytes as well as the pseudo-header.
C1_ChecksumCoversHeader ==
    (op = "make" /\ ret.tag = "packet") =>
        OnesFold(PseudoWordSum(made[1].pseudo_header[1]) + HeaderWordSum(ret.val, 0)) = 65535

\* C2: make on a header on which set_pseudo_header was never called (fresh
\* from new or from parse, whatever setters ran) panics and returns no bytes.
C2_MakeUnboundPanics ==
    (op = "make" /\ ~psCalled) => (ret = Panic /\ ret.tag # "packet" /\ ret.val = <<>>)

C2_Witness ==
    /\ op = "make"
    /\ ~psCalled
    /\ ret = Panic
    /\ made[1].flags # 0
    /\ made[1].window # 65535

\* C3: parse returns InvalidLength for every buffer shorter than 20 bytes and
\* Ok for every other buffer, and the header it returns is the one the first
\* 20 bytes alone give, whatever follows them.
C3_ParseLength ==
    op = "parse" =>
        /\ Len(raw) < 20 => (ret.tag = "InvalidLength" /\ h = None)
        /\ Len(raw) >= 20 =>
              /\ ret.tag = "Ok"
              /\ h # None
              /\ \A tail \in {<<>>, <<0>>, <<255, 7>>} :
                    parse(SubSeq(raw, 1, 20) \o tail).val = h

C3_Witness ==
    /\ op = "parse"
    /\ Len(raw) > 20
    /\ ret.tag = "Ok"
    /\ At(raw, 20) # 0

\* new(443, 51000) with Syn set and the pseudo-header ([10,0,0,1],[10,0,0,2],0)
ExampleHeader ==
    set_pseudo_header(set_flag(new(443, 51000), "Syn"), <<10, 0, 0, 1>>, <<10, 0, 0, 2>>, 0)

\* C4: make on a header with a pseudo-header returns 20 bytes: the ports
\* big-endian at 0-1 and 2-3, zeros at 4-12, the flags at 13, the window
\* big-endian at 14-15, zeros at 18-19; the example header gives
\* [1,187], [199,56], 0b00000010 and [255,255].
C4_MakeLayout ==
    op = "make" =>
        /\ made[1].pseudo_header # None => ret.tag = "packet"
        /\ ret.tag = "packet" =>
              LET p == ret.val
                  m == made[1]
              IN  /\ Len(p) = 20
                  /\ At(p, 0) = m.src_port \div 256
                  /\ At(p, 1) = m.src_port % 256
                  /\ At(p, 2) = m.dst_port \div 256
                  /\ At(p, 3) = m.dst_port % 256
                  /\ \A i \in 4..12 : At(p, i) = 0
                  /\ At(p, 13) = m.flags
                  /\ At(p, 14) = m.window \div 256
                  /\ At(p, 15) = m.window % 256
                  /\ At(p, 18) = 0
                  /\ At(p, 19) = 0
        /\ made = Some(ExampleHeader) =>
              /\ ret.tag = "packet"
              /\ <<At(ret.val, 0), At(ret.val, 1)>> = <<1, 187>>
              /\ <<At(ret.val, 2), At(ret.val, 3)>> = <<199, 56>>
              /\ At(ret.val, 13) = 2
              /\ <<At(ret.val, 14), At(ret.val, 15)>> = <<255, 255>>

C4_Witness ==
    /\ op = "make"
    /\ made = Some(ExampleHeader)
    /\ ret.tag = "packet"

\* the bit the spec gives each flag
FlagBit(f) ==
    CASE f = "Fin" -> 0
      [] f = "Syn" -> 1
      [] f = "Rst" -> 2
      [] f = "Psh" -> 3
      [] f = "Ack" -> 4
      [] f = "Urg" -> 5

\* the byte with the bits of base and the bits of the flags in F, from bit k up
RECURSIVE BitsFrom(_, _, _)
BitsFrom(base, F, k) ==
    IF k > 7 THEN 0
    ELSE (IF Bit(base, k) = 1 \/ (\E f \in F : FlagBit(f) = k) THEN 2 ^ k ELSE 0)
         + BitsFrom(base, F, k + 1)

\* C5: after any sequence of set_flag calls the flags byte is the byte before
\* the sequence with the bit of every flag set added: no bit is cleared,
\* repeats and order do not matter, and Syn and Ack on 0 give 0b00010010.
C5_FlagsAccumulate ==
    h # None =>
        /\ h[1].flags = BitsFrom(flags0, flagsSet, 0)
        /\ (flags0 = 0 /\ flagsSet = {"Syn", "Ack"}) => h[1].flags = 18

C5_Witness ==
    /\ h # None
    /\ op = "set_flag"
    /\ flags0 = 193
    /\ flagsSet = {"Syn", "Ack"}
    /\ h[1].flags = 211

\* what a set_pseudo_header call leaves, given its arguments
C6_Outcome ==
    op = "set_pseudo_header" =>
        LET b == bind[1]
        IN  /\ (ret = Panic) <=> (b.data_len + 20 > 65535)
            /\ (ret = Panic) <=> (b.data_len > 65515)
            /\ b.data_len <= 65515 =>
                  /\ ret = Unit
                  /\ h[1].pseudo_header = Some([src_ip |-> b.src_ip,
                                                dst_ip |-> b.dst_ip,
                                                protocol |-> 6,
                                                data_len |-> b.data_len + 20])

\* a set_pseudo_header call that panics leaves the header as it was
C6_PanicKeeps == (op' = "set_pseudo_header" /\ ret' = Panic) => h' = h

\* C6: set_pseudo_header panics exactly when data_len > 65515 and then binds
\* nothing; otherwise it binds the given addresses, protocol 6 and the length
\* data_len + 20, not wrapped.
C6_BindBounds == []C6_Outcome /\ [][C6_PanicKeeps]_vars

C6_Witness ==
    /\ op = "set_pseudo_header"
    /\ ret = Panic
    /\ bind[1].data_len = 65516
    /\ h[1].pseudo_header = None

\* raw_data with every byte at offsets 4-12 and 16-19 changed
Scramble(raw_data) ==
    [i \in 1..Len(raw_data) |->
        IF (i - 1) \in (4..12) \cup (16..19) THEN 255 - raw_data[i] ELSE raw_data[i]]

\* C7: parse of a buffer of 20 bytes or more succeeds whatever bytes 16-17
\* hold, gives the same header when bytes 4-12 and 16-19 are changed, and
\* gives a header with no pseudo-header bound.
C7_ParseNoPseudoNoVerify ==
    (op = "parse" /\ Len(raw) >= 20) =>
        /\ ret.tag = "Ok"
        /\ h # None
        /\ h[1].pseudo_header = None
        /\ h[1].pseudo_header_set = FALSE
        /\ parse(Scramble(raw)) = [tag |-> "Ok", val |-> h]

C7_Witness ==
    /\ op = "parse"
    /\ made = None
    /\ ret.tag = "Ok"
    /\ At(raw, 12) # 0
    /\ Be16(raw, 16) # 0

\* the value of the u32 cs modulo m
ModU32(cs, m) == (((cs[1] % m) * (65536 % m)) + cs[2]) % m

\* the folded value the claim gives for the accumulator cs
ExpectedFold(cs) ==
    IF cs = <<0, 0>> THEN 0
    ELSE IF ModU32(cs, 65535) = 0 THEN 65535
    ELSE ModU32(cs, 65535)

\* C8: finalize_checksum returns for every accumulator, with no bits >= 16
\* left; the folded value is cs mod 65535 if that is not 0, 0xFFFF if cs is
\* a non-zero multiple of 65535 and 0 if cs is 0, and the result is its NOT.
C8_Finalize ==
    /\ <>(fin.pc = "done")
    /\ [](fin.pc = "done" =>
            /\ ~FoldCond(fin.cs)
            /\ fin.cs[2] = ExpectedFold(fin.cs0)
            /\ fin.res = 65535 - ExpectedFold(fin.cs0)
            /\ fin.res + fin.cs[2] = 65535)

C8_Witness ==
    /\ fin.pc = "done"
    /\ fin.cs0 = <<1, 65535>>
    /\ fin.n = 2
    /\ fin.res = 65534

\* pseudo_header_set says whether pseudo_header is Some
Consistent(hdr) == hdr.pseudo_header_set <=> (hdr.pseudo_header # None)

\* C9: in every state pseudo_header_set is true exactly when pseudo_header is
\* Some, and make on a header whose pseudo_header_set is true does not panic.
C9_BoundFlagConsistent ==
    /\ h # None => Consistent(h[1])
    /\ made # None => Consistent(made[1])
    /\ (op = "make" /\ made[1].pseudo_header_set) => ret # Panic

C9_Witness ==
    /\ h # None
    /\ op = "set_pseudo_header"
    /\ ret = Panic
    /\ h[1].pseudo_header_set

\* C10: parse of what make returned succeeds and gives back the src_port,
\* dst_port, flags and window of the header make consumed.
C10_RoundTrip ==
    (op = "parse" /\ made # None) =>
        /\ ret.tag = "Ok"
        /\ h # None
        /\ h[1].src_port = made[1].src_port
        /\ h[1].dst_port = made[1].dst_port
        /\ h[1].flags = made[1].flags
        /\ h[1].window = made[1].window

C10_Witness ==
    /\ op = "parse"
    /\ made # None
    /\ h # None
    /\ h[1].src_port = 443
    /\ h[1].dst_port = 51000
    /\ h[1].window = 4660
    /\ h[1].flags = 211

====
